---- MODULE Spec2Model ----
(***************************************************************************)
(* A model of MCPClient (src/src/core/mcpClient.ts): the registry of       *)
(* server connections, connectToServers, processQuery and cleanup.         *)
(* Every async method is cut at its awaits: one action per stretch of code *)
(* that runs between two suspension points.  The model backend, the tool   *)
(* servers and the configuration file are the environment; their replies   *)
(* are drawn from small sets.                                              *)
(***************************************************************************)
EXTENDS Integers, Sequences, FiniteSets, TLC

(* ------------------------------ bounds --------------------------------- *)

\* Most server descriptors in a configuration file.
MaxServers == 2

\* Most tool calls in one model response.
MaxCalls == 2

\* Most connectToServers() calls in one session.
MaxConnects == 2

\* Most tool calls in one model response while two queries are in flight.
MaxInterleavedCalls == 1

(* --------------------------- the environment --------------------------- *)

\* Keys of config.mcpServers.  "1" is a canonical array index.
ServerNames == {"weather", "mssql", "1"}

\* The numeric value of a property key that is a canonical array index, -1
\* for any other key.
IndexValue(name) ==
    CASE name = "1" -> 1
      [] OTHER -> -1

\* What client.listTools() of each server answers (tool names, in order).
ListTools(serverName) ==
    CASE serverName = "weather" -> <<"getWeather", "search">>
      [] serverName = "mssql" -> <<"search">>
      [] serverName = "1" -> <<"getWeather">>
      [] OTHER -> <<>>

\* The constructor's systemPrompt argument (default "").
SystemPrompts == {"", "You are an intelligent assistant with access to tools."}

Range(s) == {s[i] : i \in DOMAIN s}

IsInjective(s) == \A i, j \in DOMAIN s : s[i] = s[j] => i = j

\* The configuration files: the descriptors' names in file order (a JSON
\* object's keys, distinct).
Configs ==
    {c \in UNION {[1..n -> ServerNames] : n \in 0..MaxServers} : IsInjective(c)}

(* ------------------------------- errors --------------------------------- *)

\* new Error(message)
Error(message) == [name |-> "Error", message |-> message]

\* `${error}` in a template literal: the error's name and message.
ErrorToString(e) == e.name \o ": " \o e.message

NoError == [name |-> "", message |-> ""]

\* What the environment raises.
ReadFileError == [name |-> "Error", message |-> "ENOENT: no such file or directory"]
TransportError == [name |-> "McpError", message |-> "Connection closed"]

(* ------------------------------- messages ------------------------------- *)

\* JavaScript's null / undefined where a string is expected.
Null == "<null>"

\* ChatCompletionMessageParam.  tool_calls is absent unless has_tool_calls.
Message(role, content, has_tool_calls, tool_calls, tool_call_id) ==
    [role |-> role, content |-> content, has_tool_calls |-> has_tool_calls,
     tool_calls |-> tool_calls, tool_call_id |-> tool_call_id]

\* { role: "user", content: query } (lines 102-105)
UserMessage(text) == Message("user", text, FALSE, <<>>, Null)

\* { role: "system", content: this.systemPrompt } (lines 114, 162)
SystemMessage(prompt) == Message("system", prompt, FALSE, <<>>, Null)

\* { role: "tool", content: result.content, tool_call_id: toolCall.id }
ToolMessage(content, toolCallId) == Message("tool", content, FALSE, <<>>, toolCallId)

\* The queries a caller passes.
Queries == {"What's the weather in Sacramento?"}

\* The tool names the model asks for; no server of ServerNames has getTime.
RequestedTools == {"getWeather", "search", "getTime"}

\* The raw argument strings of a tool call: a JSON text and a truncated one.
RawArguments == {"{\"city\":\"Sacramento\"}", "{\"city\":"}

\* Whether JSON.parse accepts the text.
IsValidJSON(text) == text = "{\"city\":\"Sacramento\"}"

\* JSON.parse of a text it accepts.
JSONParse(text) == [city |-> "Sacramento"]

\* What JSON.parse raises on a text it rejects.
JSONSyntaxError == [name |-> "SyntaxError", message |-> "Unexpected end of JSON input"]

\* The ids the backend gives the tool calls of one response, by position.
CallIds == <<"call_1", "call_2", "call_3", "call_4">>

\* The tool-call lists of a response with n calls.
ToolCallLists(n) ==
    {[k \in 1..n |-> [id |-> CallIds[k], name |-> names[k], arguments |-> args[k]]] :
        names \in [1..n -> RequestedTools], args \in [1..n -> RawArguments]}

\* A response of the model backend: the submission failed, or it carries no
\* choice, or choices[0] with its message, finish reason and the usage.
Response(failed, has_choice, message, finish_reason, usage) ==
    [received |-> TRUE, failed |-> failed, has_choice |-> has_choice,
     message |-> message, finish_reason |-> finish_reason, usage |-> usage]

NoMessage == Message("", Null, FALSE, <<>>, Null)
NoUsage == [total_tokens |-> 0]
NoResponse ==
    [received |-> FALSE, failed |-> FALSE, has_choice |-> FALSE,
     message |-> NoMessage, finish_reason |-> "", usage |-> NoUsage]

BackendError == [name |-> "Error", message |-> "429 Rate limit reached"]
ToolError == [name |-> "McpError", message |-> "MCP error -32603: tool failed"]

Usages == {[total_tokens |-> 3000]}

\* The responses to the first submission.
FirstResponses ==
    {Response(TRUE, FALSE, NoMessage, "", NoUsage),
     Response(FALSE, FALSE, NoMessage, "", NoUsage)}
    \cup {Response(FALSE, TRUE, Message("assistant", c, h, <<>>, Null), f, u) :
            c \in {Null, "It is sunny."}, h \in BOOLEAN,
            f \in {"stop", "length"}, u \in Usages}
    \cup {Response(FALSE, TRUE, Message("assistant", Null, TRUE, calls, Null),
                   "tool_calls", u) :
            calls \in UNION {ToolCallLists(n) : n \in 1..MaxCalls}, u \in Usages}

\* The responses to the second submission.
FinalResponses ==
    {Response(TRUE, FALSE, NoMessage, "", NoUsage),
     Response(FALSE, FALSE, NoMessage, "", NoUsage)}
    \cup {Response(FALSE, TRUE, Message("assistant", c, FALSE, <<>>, Null), f, u) :
            c \in {Null, "72F and sunny in Sacramento"},
            f \in {"stop", "length"}, u \in Usages}
    \cup {Response(FALSE, TRUE, Message("assistant", "Let me check.", TRUE, calls, Null),
                   "tool_calls", u) :
            calls \in ToolCallLists(1), u \in Usages}

\* result.content of a callTool that succeeds.
CallToolContent(serverName, toolName) == serverName \o "." \o toolName \o ": 72F sunny"

(* ------------------------------ the state ------------------------------- *)

VARIABLES
    systemPrompt,   \* this.systemPrompt
    configFile,     \* the file at this.serverConfigPath: the descriptors' names in
                    \* file order
    connections,    \* this.connections: the Map's entries in iteration order
    allTools,       \* this.allTools
    pc,             \* where the running method is suspended, "idle" if none runs
    op,             \* the method that runs or ran last
    outcome,        \* how the last method ended: returned a value or threw
    entries,        \* connectToServers: Object.entries(config.mcpServers)
    idx,            \* the position of the loop that is running
    closed,         \* cleanup: the servers whose client.close() was called
    connects,       \* connectToServers() calls so far
    query,          \* processQuery: its argument
    messages,       \* processQuery: the local transcript
    toolResults,    \* processQuery: the local toolResults
    submissions,    \* processQuery: the requests made to the model backend
    invocations,    \* processQuery: the callTool requests made to tool servers
    firstResponse,  \* processQuery: response
    finalResponse,  \* processQuery: finalResponse
    chat,           \* chatLoop: "off" before it runs, "question" while it waits
                    \* for a line, "query" while it awaits processQuery, "closed"
                    \* after rl.close()
    line,           \* chatLoop: message, the line read last
    reported,       \* chatLoop: whether console.error was called
    handshake,      \* connectToServer: the client.connect(transport) of the server
                    \* being connected: "pending", "done" or "failed"; "none"
                    \* when no server is being connected
    other           \* the locals of a second processQuery invocation, the one
                    \* that is not running now

queryVars == <<query, messages, toolResults, submissions, invocations,
               firstResponse, finalResponse>>

chatVars == <<chat, line, reported>>

vars == <<systemPrompt, configFile, connections, allTools, pc, op, outcome,
          entries, idx, closed, connects, query, messages, toolResults,
          submissions, invocations, firstResponse, finalResponse, chat, line,
          reported, handshake, other>>

\* outcome.cause is the error first raised, outcome.error the one the caller
\* receives.
Returned(value) ==
    [status |-> "returned", value |-> value, error |-> NoError, cause |-> NoError]
Threw(e, cause) ==
    [status |-> "threw", value |-> "", error |-> e, cause |-> cause]
Pending ==
    [status |-> "pending", value |-> "", error |-> NoError, cause |-> NoError]

\* A method other than processQuery starts: what the last query left is
\* dropped.
QueryReset ==
    /\ query' = ""
    /\ messages' = <<>>
    /\ toolResults' = <<>>
    /\ submissions' = <<>>
    /\ invocations' = <<>>
    /\ firstResponse' = NoResponse
    /\ finalResponse' = NoResponse

(* ------------------------------ the registry ---------------------------- *)

\* Map.prototype.set: a new key is appended to the iteration order, an
\* existing key keeps its place and takes the new value.
MapSet(map, key, value) ==
    IF \E i \in DOMAIN map : map[i].serverName = key
    THEN [i \in DOMAIN map |-> IF map[i].serverName = key THEN value ELSE map[i]]
    ELSE Append(map, value)

\* The keys that are array indices, in ascending numeric order.
RECURSIVE SortKeys(_)
SortKeys(S) ==
    IF S = {} THEN <<>>
    ELSE LET m == CHOOSE x \in S : \A y \in S : IndexValue(x) <= IndexValue(y)
         IN <<m>> \o SortKeys(S \ {m})

IsStringKey(name) == IndexValue(name) < 0

\* Object.entries(config.mcpServers): array-index keys first, ascending, then
\* the other keys in the order JSON.parse created them (file order).
ObjectEntries(cfg) ==
    SortKeys({n \in Range(cfg) : IndexValue(n) >= 0}) \o SelectSeq(cfg, IsStringKey)

\* The entry connectToServer registers (lines 81-86).
NewConnection(serverName, tools) == [serverName |-> serverName, tools |-> tools]

\* this.allTools.push(...tools)
PushTools(all, tools) == all \o tools

(* ---------------------------- connectToServers -------------------------- *)

\* The error connectToServers lets out when connecting `serverName` failed
\* with `cause`: wrapped by connectToServer (line 90), by the loop (line 46)
\* and by the outer catch (line 50).
ConnectError(serverName, cause) ==
    Error("Failed to read configuration file: " \o ErrorToString(
        Error("Failed to connect to server " \o serverName \o ": " \o ErrorToString(
            Error("Error connecting to server " \o serverName \o ": "
                  \o ErrorToString(cause))))))

\* connectToServers up to its first await past the file: the file is read
\* and parsed, or the read fails; connectToServer of the first server runs up
\* to its await: client.connect(transport) is called and not awaited, and
\* listTools is requested (lines 58-71).
ConnectStart ==
    /\ pc = "idle"
    /\ connects < MaxConnects
    /\ connects' = connects + 1
    /\ op' = "connectToServers"
    /\ closed' = <<>>
    /\ idx' = 1
    /\ QueryReset
    /\ UNCHANGED <<systemPrompt, configFile, connections, allTools>>
    /\ \/ /\ entries' = <<>>
          /\ pc' = "idle"
          /\ handshake' = "none"
          /\ outcome' = Threw(Error("Failed to read configuration file: "
                                    \o ErrorToString(ReadFileError)),
                              ReadFileError)
       \/ /\ entries' = ObjectEntries(configFile)
          /\ IF configFile = <<>>
             THEN pc' = "idle" /\ outcome' = Returned("") /\ handshake' = "none"
             ELSE pc' = "connecting" /\ outcome' = Pending /\ handshake' = "pending"

\* client.connect(transport) of the server being connected settles (line
\* 69).  Nothing awaits it: launch and handshake complete, or fail, while
\* connectToServer is suspended at listTools.
Handshake ==
    /\ pc = "connecting"
    /\ handshake = "pending"
    /\ handshake' \in {"done", "failed"}
    /\ UNCHANGED <<systemPrompt, configFile, connections, allTools, pc, op, outcome,
                   entries, idx, closed, connects, chat, line, reported>>
    /\ UNCHANGED queryVars

\* One turn of the loop: the listTools of connectToServer(serverName)
\* settles (lines 71-92, 42-48).  It is rejected, or (unless launch or
\* handshake have failed) answered: then the server is registered and the
\* next server's connectToServer runs up to its listTools.
ConnectServer ==
    /\ pc = "connecting"
    /\ LET serverName == entries[idx] IN
       \/ /\ pc' = "idle"
          /\ outcome' = Threw(ConnectError(serverName, TransportError), TransportError)
          /\ handshake' = "none"
          /\ UNCHANGED <<connections, allTools, idx>>
       \/ /\ handshake # "failed"
          /\ connections' = MapSet(connections, serverName,
                                   NewConnection(serverName, ListTools(serverName)))
          /\ allTools' = PushTools(allTools, ListTools(serverName))
          /\ idx' = idx + 1
          /\ IF idx = Len(entries)
             THEN pc' = "idle" /\ outcome' = Returned("") /\ handshake' = "none"
             ELSE pc' = "connecting" /\ outcome' = Pending /\ handshake' = "pending"
    /\ UNCHANGED <<systemPrompt, configFile, op, entries, closed, connects>>
    /\ UNCHANGED queryVars

(* -------------------------------- cleanup ------------------------------- *)

\* this.connections.clear()
MapClear(map) == <<>>

\* cleanup up to its first await: with no connection the loop body never
\* runs and the registry is cleared at once.
CleanupStart ==
    /\ pc = "idle"
    /\ op' = "cleanup"
    /\ entries' = <<>>
    /\ closed' = <<>>
    /\ idx' = 1
    /\ IF connections = <<>>
       THEN /\ connections' = MapClear(connections)
            /\ pc' = "idle"
            /\ outcome' = Returned("")
       ELSE /\ connections' = connections
            /\ pc' = "closing"
            /\ outcome' = Pending
    /\ QueryReset
    /\ UNCHANGED <<systemPrompt, configFile, allTools, connects>>

\* One turn of the loop: connection.client.close() settles.
CleanupClose ==
    /\ pc = "closing"
    /\ closed' = Append(closed, connections[idx].serverName)
    /\ \E closeFails \in BOOLEAN :
          IF closeFails
          THEN /\ pc' = "idle"
               /\ outcome' = Threw(TransportError, TransportError)
               /\ UNCHANGED <<connections, idx>>
          ELSE /\ idx' = idx + 1
               /\ IF idx = Len(connections)
                  THEN /\ connections' = MapClear(connections)
                       /\ pc' = "idle"
                       /\ outcome' = Returned("")
                  ELSE /\ connections' = connections
                       /\ pc' = "closing"
                       /\ outcome' = Pending
    /\ UNCHANGED <<systemPrompt, configFile, allTools, op, entries, connects>>
    /\ UNCHANGED queryVars

(* ----------------------------- processQuery ----------------------------- *)

\* A variant of WithSystemPrompt that sends a system message even when the
\* prompt is empty.
WithSystemPromptAlways(prompt, msgs) == <<SystemMessage(prompt)>> \o msgs

\* this.systemPrompt ? [{system}, ...messages] : messages  (lines 113-116,
\* 161-164)
WithSystemPrompt(prompt, msgs) ==
    IF prompt # "" THEN <<SystemMessage(prompt)>> \o msgs ELSE msgs

\* A variant of FirstRequest that sends tool_choice "auto" whatever the tools.
FirstRequestAutoChoice(prompt, msgs, tools) ==
    [messages |-> WithSystemPrompt(prompt, msgs),
     has_tools |-> Len(tools) > 0,
     tools |-> tools,
     tool_choice |-> "auto"]

\* The first submission (lines 110-119): tools and tool_choice are undefined
\* when this.allTools is empty.
FirstRequest(prompt, msgs, tools) ==
    [messages |-> WithSystemPrompt(prompt, msgs),
     has_tools |-> Len(tools) > 0,
     tools |-> IF Len(tools) > 0 THEN tools ELSE <<>>,
     tool_choice |-> IF Len(tools) > 0 THEN "auto" ELSE Null]

\* A variant of FinalRequest that offers the tools again.
FinalRequestWithTools(prompt, msgs) == FirstRequest(prompt, msgs, allTools)

\* The second submission (lines 158-165): no tools, no tool_choice.
FinalRequest(prompt, msgs) ==
    [messages |-> WithSystemPrompt(prompt, msgs),
     has_tools |-> FALSE, tools |-> <<>>, tool_choice |-> Null]

\* assistantMessage.tool_calls && assistantMessage.tool_calls.length > 0
HasToolCalls(message) == message.has_tool_calls /\ Len(message.tool_calls) > 0

\* A variant of OrEmpty without the `|| ""`.
OrEmptyKeepsNull(content) == content

\* content || ""
OrEmpty(content) == IF content = Null \/ content = "" THEN "" ELSE content

\* connection.tools.find(t => t.function?.name === toolName) found a tool
HasTool(tools, toolName) == \E i \in DOMAIN tools : tools[i] = toolName

NullConnection == [serverName |-> Null, tools |-> <<>>]

\* The loop of findToolServer from the i-th connection on.
RECURSIVE FindFrom(_, _, _)
FindFrom(conns, i, toolName) ==
    IF i > Len(conns) THEN NullConnection
    ELSE IF HasTool(conns[i].tools, toolName) THEN conns[i]
    ELSE FindFrom(conns, i + 1, toolName)

\* A variant of findToolServer in which a later connection shadows an
\* earlier one: the last match wins.
RECURSIVE FindLastFrom(_, _, _)
FindLastFrom(conns, i, toolName) ==
    IF i < 1 THEN NullConnection
    ELSE IF HasTool(conns[i].tools, toolName) THEN conns[i]
    ELSE FindLastFrom(conns, i - 1, toolName)

FindToolServerLast(conns, toolName) == FindLastFrom(conns, Len(conns), toolName)

\* A variant of findToolServer that falls back to the first connection when
\* no connection has the tool.
FindToolServerOrFirst(conns, toolName) ==
    IF FindFrom(conns, 1, toolName) = NullConnection /\ conns # <<>>
    THEN conns[1]
    ELSE FindFrom(conns, 1, toolName)

\* findToolServer (lines 184-198)
FindToolServer(conns, toolName) == FindFrom(conns, 1, toolName)

\* throw new Error(`Tool ${toolName} not found in any connected server`)
ToolNotFoundError(toolName) ==
    Error("Tool " \o toolName \o " not found in any connected server")

\* catch (error) { throw new Error(`Error processing query: ${error}`) }
QueryError(cause) == Error("Error processing query: " \o ErrorToString(cause))

\* A variant of the catch block that rethrows the error as it is.
RethrowQueryError(cause) == Threw(cause, cause)

\* What the catch block of processQuery makes of an error raised in the try.
CatchQueryError(cause) == Threw(QueryError(cause), cause)

\* A variant of the push that puts the newest result first.
PushResultFront(results, message) == <<message>> \o results

\* toolResults.push(message)
PushResult(results, message) == Append(results, message)

\* messages.push(...toolResults)
PushResults(msgs, results) == msgs \o results

\* JSON.stringify of the usage object.
StringifyUsage(usage) == "{\"total_tokens\":" \o ToString(usage.total_tokens) \o "}"

\* JSON.stringify({finish_reason, description, usage}) of lines 168-172.
TruncationNotice(usage) ==
    "{\"finish_reason\":\"length\",\"description\":\"The maximum number of tokens "
    \o "specified in the request was reached.\",\"usage\":"
    \o StringifyUsage(usage) \o "}"

\* A variant of IsTruncated that tests for another backend's reason.
IsTruncatedMaxTokens(response) ==
    response.has_choice /\ response.finish_reason = "max_tokens"

\* finalResponse.choices[0]?.finish_reason === "length"
IsTruncated(response) == response.has_choice /\ response.finish_reason = "length"

\* Lines 167-175: what processQuery returns for the final response.
FinalValue(response) ==
    IF IsTruncated(response) THEN TruncationNotice(response.usage)
    ELSE IF response.has_choice THEN OrEmpty(response.message.content)
    ELSE ""

\* A variant of QueryStart that takes the tools out of this.allTools
\* instead of reading them.
QueryStartTakesTools ==
    /\ pc = "idle"
    /\ \E q \in Queries :
          /\ query' = q
          /\ messages' = <<UserMessage(q)>>
          /\ submissions' = <<FirstRequest(systemPrompt, <<UserMessage(q)>>, allTools)>>
    /\ allTools' = <<>>
    /\ op' = "processQuery"
    /\ pc' = "awaitFirst"
    /\ outcome' = Pending
    /\ toolResults' = <<>>
    /\ invocations' = <<>>
    /\ firstResponse' = NoResponse
    /\ finalResponse' = NoResponse
    /\ entries' = <<>>
    /\ closed' = <<>>
    /\ idx' = 1
    /\ UNCHANGED <<systemPrompt, configFile, connections, connects>>

\* processQuery(q) up to its first await: the transcript is the user message
\* and the first submission is made.
QueryStartWith(q) ==
    /\ pc = "idle"
    /\ query' = q
    /\ messages' = <<UserMessage(q)>>
    /\ submissions' = <<FirstRequest(systemPrompt, <<UserMessage(q)>>, allTools)>>
    /\ op' = "processQuery"
    /\ pc' = "awaitFirst"
    /\ outcome' = Pending
    /\ toolResults' = <<>>
    /\ invocations' = <<>>
    /\ firstResponse' = NoResponse
    /\ finalResponse' = NoResponse
    /\ entries' = <<>>
    /\ closed' = <<>>
    /\ idx' = 1
    /\ UNCHANGED <<systemPrompt, configFile, connections, allTools, connects>>

\* processQuery called with one of Queries.
QueryStart == \E q \in Queries : QueryStartWith(q)

\* The callTool request made last has settled.
Settle(invoked, status) ==
    [invoked EXCEPT ![Len(invoked)] = [@ EXCEPT !.status = status]]

\* The loop body of lines 133-145 for the k-th tool call, up to the await of
\* callTool: the arguments are parsed, the owner is looked up and the tool is
\* invoked, or the query fails.  `invoked` are the callTool requests made so
\* far.
DispatchCall(invoked, calls, k) ==
    LET toolCall == calls[k]
        serverConnection == FindToolServer(connections, toolCall.name)
    IN  IF ~IsValidJSON(toolCall.arguments)
        THEN /\ pc' = "idle"
             /\ outcome' = CatchQueryError(JSONSyntaxError)
             /\ invocations' = invoked
        ELSE IF serverConnection = NullConnection
        THEN /\ pc' = "idle"
             /\ outcome' = CatchQueryError(ToolNotFoundError(toolCall.name))
             /\ invocations' = invoked
        ELSE /\ pc' = "awaitTool"
             /\ outcome' = Pending
             /\ invocations' = Append(invoked,
                    [serverName |-> serverConnection.serverName,
                     name |-> toolCall.name,
                     arguments |-> JSONParse(toolCall.arguments),
                     status |-> "pending"])

\* The first response arrives (lines 121-135, 176-178).
FirstResponse ==
    /\ pc = "awaitFirst"
    /\ \E response \in FirstResponses :
          /\ firstResponse' = response
          /\ IF response.failed
             THEN /\ pc' = "idle"
                  /\ outcome' = CatchQueryError(BackendError)
                  /\ UNCHANGED <<messages, invocations>>
             ELSE IF ~response.has_choice
             THEN /\ pc' = "idle"
                  /\ outcome' = CatchQueryError(Error("No response from GPT"))
                  /\ UNCHANGED <<messages, invocations>>
             ELSE /\ messages' = Append(messages, response.message)
                  /\ IF HasToolCalls(response.message)
                     THEN DispatchCall(invocations, response.message.tool_calls, 1)
                     ELSE /\ pc' = "idle"
                          /\ outcome' = Returned(OrEmpty(response.message.content))
                          /\ UNCHANGED invocations
    /\ UNCHANGED <<systemPrompt, configFile, connections, allTools, op, entries, idx,
                   closed, connects, query, toolResults, submissions, finalResponse>>

\* callTool of the idx-th tool call settles (lines 142-165): its result is
\* pushed and the loop goes on, or, after the last call, the results join the
\* transcript and the second submission is made.
ToolResponse ==
    /\ pc = "awaitTool"
    /\ LET calls == firstResponse.message.tool_calls
           toolCall == calls[idx]
           invoked == invocations[Len(invocations)]
       IN  \E callFails \in BOOLEAN :
              IF callFails
              THEN /\ pc' = "idle"
                   /\ outcome' = CatchQueryError(ToolError)
                   /\ invocations' = Settle(invocations, "failed")
                   /\ UNCHANGED <<messages, toolResults, submissions, idx>>
              ELSE /\ toolResults' = PushResult(toolResults,
                          ToolMessage(CallToolContent(invoked.serverName, invoked.name),
                                      toolCall.id))
                   /\ IF idx < Len(calls)
                      THEN /\ idx' = idx + 1
                           /\ DispatchCall(Settle(invocations, "ok"), calls, idx + 1)
                           /\ UNCHANGED <<messages, submissions>>
                      ELSE /\ messages' = PushResults(messages, toolResults')
                           /\ submissions' = Append(submissions,
                                  FinalRequest(systemPrompt, messages'))
                           /\ pc' = "awaitFinal"
                           /\ outcome' = Pending
                           /\ invocations' = Settle(invocations, "ok")
                           /\ UNCHANGED idx
    /\ UNCHANGED <<systemPrompt, configFile, connections, allTools, op, entries,
                   closed, connects, query, firstResponse, finalResponse>>

\* The final response arrives (lines 167-175).
FinalResponse ==
    /\ pc = "awaitFinal"
    /\ \E response \in FinalResponses :
          /\ finalResponse' = response
          /\ pc' = "idle"
          /\ outcome' = IF response.failed
                        THEN CatchQueryError(BackendError)
                        ELSE Returned(FinalValue(response))
    /\ UNCHANGED <<systemPrompt, configFile, connections, allTools, op, entries, idx,
                   closed, connects, query, messages, toolResults, submissions,
                   invocations, firstResponse>>

(* -------------------------------- chatLoop ------------------------------ *)

\* The lines rl.question reads.
Lines == {"quit", "QUIT"} \cup Queries

\* String.prototype.toLowerCase on the lines read.
ToLowerCase(text) ==
    CASE text = "QUIT" -> "quit"
      [] text = "What's the weather in Sacramento?" -> "what's the weather in sacramento?"
      [] OTHER -> text

\* chatLoop up to its first await: the readline interface is created and
\* the first question is asked (lines 204-213).
ChatStart ==
    /\ pc = "idle"
    /\ chat = "off"
    /\ chat' = "question"
    /\ op' = "chatLoop"
    /\ outcome' = Pending
    /\ line' = ""
    /\ reported' = FALSE
    /\ entries' = <<>>
    /\ closed' = <<>>
    /\ idx' = 1
    /\ QueryReset
    /\ UNCHANGED <<systemPrompt, configFile, connections, allTools, pc, connects,
                   handshake>>

\* rl.question answers with "quit" in any case (lines 213-216, 222-224): the
\* loop is left, rl.close() runs and chatLoop returns.
ChatQuit ==
    /\ chat = "question"
    /\ \E message \in Lines :
          /\ ToLowerCase(message) = "quit"
          /\ line' = message
    /\ chat' = "closed"
    /\ op' = "chatLoop"
    /\ outcome' = Returned("")
    /\ UNCHANGED <<systemPrompt, configFile, connections, allTools, pc, entries,
                   idx, closed, connects, reported, handshake>>
    /\ UNCHANGED queryVars

\* rl.question answers with another line (lines 213-217): processQuery is
\* called with it.
ChatLine ==
    /\ chat = "question"
    /\ \E message \in Lines :
          /\ ToLowerCase(message) # "quit"
          /\ line' = message
          /\ QueryStart
          /\ query' = message
    /\ chat' = "query"
    /\ UNCHANGED <<reported, handshake>>

\* The processQuery that chatLoop awaits has settled (lines 217-224): its
\* value is printed and the next question is asked, or its error is caught
\* outside the loop, reported, and rl.close() runs and chatLoop returns.
ChatResume ==
    /\ chat = "query"
    /\ op = "processQuery"
    /\ pc = "idle"
    /\ IF outcome.status = "returned"
       THEN /\ chat' = "question"
            /\ outcome' = Pending
            /\ reported' = reported
       ELSE /\ chat' = "closed"
            /\ outcome' = Returned("")
            /\ reported' = TRUE
    /\ op' = "chatLoop"
    /\ UNCHANGED <<systemPrompt, configFile, connections, allTools, pc, entries,
                   idx, closed, connects, line, handshake>>
    /\ UNCHANGED queryVars

(* ----------------------- two queries in flight -------------------------- *)

\* The locals of the processQuery invocation that is running: its argument,
\* messages (line 101), response and assistantMessage (lines 110, 121),
\* toolResults (line 131), the position of its loop (line 133),
\* finalResponse (line 158), where it is suspended and how it ended, with the
\* requests it made.
Locals ==
    [pc |-> pc, outcome |-> outcome, idx |-> idx, query |-> query,
     messages |-> messages, toolResults |-> toolResults,
     submissions |-> submissions, invocations |-> invocations,
     firstResponse |-> firstResponse, finalResponse |-> finalResponse]

\* The locals of an invocation that has not been made.
NotStarted ==
    [pc |-> "idle", outcome |-> Returned(""), idx |-> 1, query |-> "",
     messages |-> <<>>, toolResults |-> <<>>, submissions |-> <<>>,
     invocations |-> <<>>, firstResponse |-> NoResponse,
     finalResponse |-> NoResponse]

\* The question a caller asks while its first query is in flight.
InterleavedQueries == {"List the tables"}

\* A variant of Switch in which the transcript is a field of the client,
\* shared by the invocations, instead of a local of processQuery.
SwitchSharedTranscript ==
    /\ op = "processQuery"
    /\ pc # "idle" \/ other.query # ""
    /\ other' = Locals
    /\ pc' = other.pc
    /\ outcome' = other.outcome
    /\ idx' = other.idx
    /\ query' = other.query
    /\ messages' = messages
    /\ toolResults' = other.toolResults
    /\ submissions' = other.submissions
    /\ invocations' = other.invocations
    /\ firstResponse' = other.firstResponse
    /\ finalResponse' = other.finalResponse
    /\ UNCHANGED <<systemPrompt, configFile, connections, allTools, op, entries,
                   closed, connects, chat, line, reported, handshake>>

\* The event loop turns to the other invocation: the running one is
\* suspended at an await (or has ended) and the other one's continuation
\* runs next, or, if it has not been made, the caller makes it.  Each
\* invocation has its own locals; the fields of the client are shared.
Switch ==
    /\ op = "processQuery"
    /\ pc # "idle" \/ other.query # ""
    /\ other' = Locals
    /\ pc' = other.pc
    /\ outcome' = other.outcome
    /\ idx' = other.idx
    /\ query' = other.query
    /\ messages' = other.messages
    /\ toolResults' = other.toolResults
    /\ submissions' = other.submissions
    /\ invocations' = other.invocations
    /\ firstResponse' = other.firstResponse
    /\ finalResponse' = other.finalResponse
    /\ UNCHANGED <<systemPrompt, configFile, connections, allTools, op, entries,
                   closed, connects, chat, line, reported, handshake>>

\* The second processQuery is called while the first one is in flight.
InterleavedQueryStart ==
    /\ other.query # ""
    /\ query = ""
    /\ \E q \in InterleavedQueries : QueryStartWith(q)

(* --------------------------- the specification -------------------------- *)

Init ==
    /\ systemPrompt \in SystemPrompts
    /\ configFile \in Configs
    /\ connections = <<>>
    /\ allTools = <<>>
    /\ pc = "idle"
    /\ op = "constructor"
    /\ outcome = Returned("")
    /\ entries = <<>>
    /\ idx = 1
    /\ closed = <<>>
    /\ connects = 0
    /\ query = ""
    /\ messages = <<>>
    /\ toolResults = <<>>
    /\ submissions = <<>>
    /\ invocations = <<>>
    /\ firstResponse = NoResponse
    /\ finalResponse = NoResponse
    /\ chat = "off"
    /\ line = ""
    /\ reported = FALSE
    /\ handshake = "none"
    /\ other = NotStarted

\* The methods called one after the other, each when the last has ended.
Next ==
    \/ ConnectStart /\ UNCHANGED <<chatVars, other>>
    \/ Handshake /\ UNCHANGED other
    \/ ConnectServer /\ UNCHANGED <<chatVars, other>>
    \/ CleanupStart /\ UNCHANGED <<chatVars, handshake, other>>
    \/ CleanupClose /\ UNCHANGED <<chatVars, handshake, other>>
    \/ QueryStart /\ UNCHANGED <<chatVars, handshake, other>>
    \/ FirstResponse /\ UNCHANGED <<chatVars, handshake, other>>
    \/ ToolResponse /\ UNCHANGED <<chatVars, handshake, other>>
    \/ FinalResponse /\ UNCHANGED <<chatVars, handshake, other>>

Spec == Init /\ [][Next]_vars

\* connectToServers, then chatLoop (examples/chatExample.js).
NextChat ==
    \/ chat = "off" /\ ConnectStart /\ UNCHANGED <<chatVars, other>>
    \/ Handshake /\ UNCHANGED other
    \/ ConnectServer /\ UNCHANGED <<chatVars, other>>
    \/ ChatStart /\ UNCHANGED other
    \/ ChatQuit /\ UNCHANGED other
    \/ ChatLine /\ UNCHANGED other
    \/ FirstResponse /\ UNCHANGED <<chatVars, handshake, other>>
    \/ ToolResponse /\ UNCHANGED <<chatVars, handshake, other>>
    \/ FinalResponse /\ UNCHANGED <<chatVars, handshake, other>>
    \/ ChatResume /\ UNCHANGED other

SpecChat == Init /\ [][NextChat]_vars

\* connectToServers, then two processQuery calls of which the second is made
\* while the first is in flight (Promise.all of the two): the continuations
\* of both run in any order.
NextConcurrent ==
    \/ op = "constructor" /\ ConnectStart /\ UNCHANGED <<chatVars, other>>
    \/ Handshake /\ UNCHANGED other
    \/ ConnectServer /\ UNCHANGED <<chatVars, other>>
    \/ op # "processQuery" /\ QueryStart /\ UNCHANGED <<chatVars, handshake, other>>
    \/ InterleavedQueryStart /\ UNCHANGED <<chatVars, handshake, other>>
    \/ /\ FirstResponse
       /\ Len(firstResponse'.message.tool_calls) <= MaxInterleavedCalls
       /\ UNCHANGED <<chatVars, handshake, other>>
    \/ ToolResponse /\ UNCHANGED <<chatVars, handshake, other>>
    \/ FinalResponse /\ UNCHANGED <<chatVars, handshake, other>>
    \/ Switch

\* The session of the two queries is configured with both named servers:
\* "weather" has getWeather and search, "mssql" has search.
InitConcurrent == Init /\ configFile = <<"weather", "mssql">>

SpecConcurrent == InitConcurrent /\ [][NextConcurrent]_vars

(* ------------------------------ properties ------------------------------ *)

Min(S) == CHOOSE x \in S : \A y \in S : x <= y

IsToolMessage(message) == message.role = "tool"

\* processQuery has ended (returned or thrown).
QueryDone == op = "processQuery" /\ pc = "idle"

\* The tool calls the first response asked for (none before it arrived).
RequestedCalls == firstResponse.message.tool_calls

\* The first response asked for at least one tool call.
RequestsTools ==
    /\ firstResponse.received /\ ~firstResponse.failed /\ firstResponse.has_choice
    /\ firstResponse.message.has_tool_calls
    /\ RequestedCalls # <<>>

\* The connections (by position) whose tool list holds toolName.
Owners(toolName) ==
    {i \in DOMAIN connections : toolName \in Range(connections[i].tools)}

\* The tool message the k-th requested call must produce.
ExpectedToolMessage(k) ==
    [role |-> "tool",
     content |-> CallToolContent(invocations[k].serverName, RequestedCalls[k].name),
     has_tool_calls |-> FALSE, tool_calls |-> <<>>,
     tool_call_id |-> RequestedCalls[k].id]

\* C1: whenever a query has made its second submission after a first
\* response that asked for tool calls T1..Tn, the transcript sent holds
\* exactly n tool-result messages, the k-th one answering Tk: tagged with
\* Tk's call id and carrying the result of invoking Tk's tool.
C1_ToolResultsInRequestOrder ==
    (op = "processQuery" /\ Len(submissions) = 2) =>
        LET results == SelectSeq(submissions[2].messages, IsToolMessage)
        IN  /\ RequestsTools
            /\ Len(results) = Len(RequestedCalls)
            /\ \A k \in DOMAIN results :
                  /\ results[k].tool_call_id = RequestedCalls[k].id
                  /\ invocations[k].name = RequestedCalls[k].name
                  /\ results[k].content =
                        CallToolContent(invocations[k].serverName, RequestedCalls[k].name)

\* C1 witness: a second submission after two calls of different tools.
C1_Witness ==
    /\ op = "processQuery" /\ Len(submissions) = 2
    /\ Len(RequestedCalls) = 2
    /\ RequestedCalls[1].name # RequestedCalls[2].name
    /\ Len(SelectSeq(submissions[2].messages, IsToolMessage)) = 2

\* C2: a query whose first response carries a message without tool calls
\* (absent or empty list) has ended at once: it returned the message's text
\* ("" if it has none), invoked no tool and made one submission.
C2_NoToolPathReturnsText ==
    ( /\ op = "processQuery"
      /\ firstResponse.received /\ ~firstResponse.failed /\ firstResponse.has_choice
      /\ (~firstResponse.message.has_tool_calls \/ RequestedCalls = <<>>) ) =>
        /\ pc = "idle"
        /\ outcome.status = "returned"
        /\ outcome.value = IF firstResponse.message.content = Null
                           THEN "" ELSE firstResponse.message.content
        /\ invocations = <<>>
        /\ Len(submissions) = 1
        /\ ~finalResponse.received

\* C2 witness: tools are registered, the first response is cut by the token
\* limit and carries an empty tool-call list, and its text was returned.
C2_Witness ==
    /\ QueryDone
    /\ allTools # <<>> /\ connections # <<>>
    /\ firstResponse.received /\ firstResponse.finish_reason = "length"
    /\ firstResponse.message.has_tool_calls /\ RequestedCalls = <<>>
    /\ outcome = Returned("It is sunny.")

\* Some requested call names a tool no registered connection has.
RequestsUnownedTool ==
    RequestsTools /\ \E k \in DOMAIN RequestedCalls : Owners(RequestedCalls[k].name) = {}

\* The first requested call, in request order, whose tool nobody has.
FirstUnowned == Min({k \in DOMAIN RequestedCalls : Owners(RequestedCalls[k].name) = {}})

\* No tool result reached the transcript and no second submission was made.
NoToolResultExposed ==
    /\ \A i \in DOMAIN messages : messages[i].role # "tool"
    /\ Len(submissions) = 1
    /\ ~finalResponse.received

\* C3 as stated: a query whose first response asks for a tool nobody has ends
\* with an error naming such a tool, with no tool result in the transcript and
\* no second submission.
C3_Original ==
    (QueryDone /\ RequestsUnownedTool) =>
        /\ outcome.status = "threw"
        /\ \E k \in DOMAIN RequestedCalls :
              /\ Owners(RequestedCalls[k].name) = {}
              /\ outcome.error = Error("Error processing query: Error: Tool "
                                       \o RequestedCalls[k].name
                                       \o " not found in any connected server")
        /\ NoToolResultExposed

\* C3 amended: such a query never gets past dispatch and, once ended, has
\* thrown, with no tool result in the transcript and no second submission;
\* the error names the first unowned tool in request order when that call and
\* all calls before it have well-formed arguments and every call before it
\* was invoked successfully.  Otherwise the error is the earlier failure's.
C3_UnownedToolFailsQuery ==
    (op = "processQuery" /\ RequestsUnownedTool) =>
        /\ pc \in {"idle", "awaitTool"}
        /\ NoToolResultExposed
        /\ pc = "idle" =>
              /\ outcome.status = "threw"
              /\ outcome.value = ""
              /\ ( /\ \A j \in 1..FirstUnowned : IsValidJSON(RequestedCalls[j].arguments)
                   /\ Len(toolResults) = FirstUnowned - 1 ) =>
                    outcome.error = Error("Error processing query: Error: Tool "
                                          \o RequestedCalls[FirstUnowned].name
                                          \o " not found in any connected server")

\* C3 witness: the second requested tool is unowned, the first was invoked and
\* answered, and the query threw.
C3_Witness ==
    /\ QueryDone /\ RequestsUnownedTool
    /\ FirstUnowned = 2
    /\ Len(toolResults) = 1
    /\ outcome.status = "threw"

\* C4: once the response to the second submission has arrived, the query has
\* returned: the truncation notice with reason, description and that
\* response's usage, and not the message's text, when the finish reason is
\* "length"; the message's text ("" if none) otherwise.
C4_TruncationNotice ==
    (op = "processQuery" /\ finalResponse.received /\ ~finalResponse.failed) =>
        /\ pc = "idle"
        /\ outcome.status = "returned"
        /\ IF finalResponse.has_choice /\ finalResponse.finish_reason = "length"
           THEN /\ outcome.value =
                      "{\"finish_reason\":\"length\",\"description\":\"The maximum number "
                      \o "of tokens specified in the request was reached.\",\"usage\":"
                      \o "{\"total_tokens\":"
                      \o ToString(finalResponse.usage.total_tokens) \o "}}"
                /\ outcome.value # finalResponse.message.content
           ELSE outcome.value =
                    IF finalResponse.has_choice /\ finalResponse.message.content # Null
                    THEN finalResponse.message.content ELSE ""

\* C4 witness: a final response cut by the token limit that carries text.
C4_Witness ==
    /\ QueryDone
    /\ finalResponse.received /\ finalResponse.finish_reason = "length"
    /\ finalResponse.message.content = "72F and sunny in Sacramento"
    /\ outcome.status = "returned"

\* C5: the transcript of a second submission is the system message (iff the
\* system prompt is not empty), the user message with the query, the
\* assistant message of the first response and one tool message per requested
\* call, and nothing else.
C5_FinalTranscript ==
    (op = "processQuery" /\ Len(submissions) = 2) =>
        submissions[2].messages =
            (IF systemPrompt = "" THEN <<>>
             ELSE <<[role |-> "system", content |-> systemPrompt,
                     has_tool_calls |-> FALSE, tool_calls |-> <<>>,
                     tool_call_id |-> Null]>>)
            \o <<[role |-> "user", content |-> query, has_tool_calls |-> FALSE,
                  tool_calls |-> <<>>, tool_call_id |-> Null]>>
            \o <<firstResponse.message>>
            \o [k \in 1..Len(RequestedCalls) |-> ExpectedToolMessage(k)]

\* C5 witness: a second submission made with no system prompt configured.
C5_Witness ==
    /\ op = "processQuery" /\ Len(submissions) = 2
    /\ systemPrompt = ""
    /\ Len(submissions[2].messages) = 3

\* C6: a query makes at most two submissions and invokes at most the calls of
\* the first response; the second submission carries no tools and no
\* tool_choice; once the second response has arrived the query has ended
\* with no further invocation, whatever that response asks for.
C6_OneToolRound ==
    op = "processQuery" =>
        /\ Len(submissions) <= 2
        /\ Len(invocations) <= Len(RequestedCalls)
        /\ Len(submissions) = 2 =>
              /\ ~submissions[2].has_tools
              /\ submissions[2].tools = <<>>
              /\ submissions[2].tool_choice = Null
        /\ finalResponse.received =>
              /\ pc = "idle"
              /\ outcome.status \in {"returned", "threw"}
              /\ Len(submissions) = 2
              /\ Len(invocations) = Len(RequestedCalls)
              /\ \A k \in DOMAIN invocations : invocations[k].status = "ok"

\* C6 witness: tools are registered and the second response asks for another
\* tool call; the query returned that response's text.
C6_Witness ==
    /\ QueryDone
    /\ allTools # <<>>
    /\ finalResponse.received /\ finalResponse.message.has_tool_calls
    /\ finalResponse.message.tool_calls # <<>>
    /\ outcome = Returned("Let me check.")

\* A step of the query failed: a submission, the missing assistant message,
\* the arguments or the owner of a call that was reached, or an invocation.
\* A call is reached when every call before it was invoked and answered.
QueryStepFailed ==
    \/ firstResponse.received /\ (firstResponse.failed \/ ~firstResponse.has_choice)
    \/ /\ RequestsTools
       /\ \E k \in DOMAIN RequestedCalls :
             /\ Len(toolResults) >= k - 1
             /\ \/ ~IsValidJSON(RequestedCalls[k].arguments)
                \/ Owners(RequestedCalls[k].name) = {}
    \/ \E k \in DOMAIN invocations : invocations[k].status = "failed"
    \/ finalResponse.received /\ finalResponse.failed

\* C7: a query that has ended threw exactly when one of its steps failed;
\* what it threw is one Error whose message is "Error processing query: "
\* followed by the cause, and it returned no value.
C7_FailuresAreWrapped ==
    QueryDone =>
        /\ outcome.status \in {"returned", "threw"}
        /\ QueryStepFailed <=> outcome.status = "threw"
        /\ outcome.status = "threw" =>
              /\ outcome.cause # NoError
              /\ outcome.error =
                    [name |-> "Error",
                     message |-> "Error processing query: " \o outcome.cause.name
                                 \o ": " \o outcome.cause.message]
              /\ outcome.value = ""
        /\ outcome.status = "returned" => outcome.error = NoError

\* C7 witness: the second of two invocations failed after the first one had
\* answered; the query threw the wrapped tool error.
C7_Witness ==
    /\ QueryDone
    /\ Len(toolResults) = 1
    /\ Len(invocations) = 2 /\ invocations[2].status = "failed"
    /\ outcome.status = "threw"
    /\ outcome.cause = ToolError

\* C8 as stated: a connectToServers() that returned left exactly one
\* connection per descriptor of the configuration file, in file order.
C8_Original ==
    (op = "connectToServers" /\ pc = "idle" /\ outcome.status = "returned") =>
        /\ Len(connections) = Len(configFile)
        /\ \A i \in DOMAIN connections : connections[i].serverName = configFile[i]

\* C9: every callTool a query made went to the first connection, in
\* registration order, whose tool list holds the tool's name, and a query
\* threw "not found" for a tool only when no connection has it; so two
\* lookups of one name in a query reach the same connection.
C9_FirstMatchWins ==
    op = "processQuery" =>
        /\ \A k \in DOMAIN invocations :
              /\ Owners(invocations[k].name) # {}
              /\ invocations[k].serverName =
                    connections[Min(Owners(invocations[k].name))].serverName
        /\ \A t \in RequestedTools :
              outcome.cause = Error("Tool " \o t \o " not found in any connected server")
                  => Owners(t) = {}
        /\ \A j, k \in DOMAIN invocations :
              invocations[j].name = invocations[k].name
                  => invocations[j].serverName = invocations[k].serverName

\* C9 witness: two connections have the tool and it was looked up twice.
C9_Witness ==
    /\ op = "processQuery"
    /\ Len(invocations) = 2
    /\ invocations[1].name = invocations[2].name
    /\ Cardinality(Owners(invocations[1].name)) >= 2

\* C10 as stated: the step that ends a cleanup() leaves no error raised,
\* close called on every connection that was registered, and the registry
\* empty.
C10_Original ==
    [][(pc = "closing" /\ pc' = "idle") =>
          /\ outcome'.status = "returned"
          /\ Len(closed') = Len(connections)
          /\ \A i \in DOMAIN connections : closed'[i] = connections[i].serverName
          /\ connections' = <<>>]_vars

\* C11 as stated: a cleanup() called right after a cleanup() has ended is a
\* no-op: it ends at once without error, calls close on no connection and
\* changes neither the registry nor the tool list.
C11_Original ==
    [][(op = "cleanup" /\ pc = "idle" /\ op' = "cleanup") =>
          /\ pc' = "idle"
          /\ outcome'.status = "returned"
          /\ closed' = <<>>
          /\ connections = <<>>
          /\ UNCHANGED <<connections, allTools>>]_vars

\* C12 as stated: chatLoop ends (rl.close() has run) only when the line read
\* last is "quit" in some case; a processQuery that threw is reported and the
\* loop goes on to the next question.
C12_Original ==
    /\ chat = "closed" => ToLowerCase(line) = "quit"
    /\ reported => chat \in {"question", "query"}

\* C13 as stated: a query whose first response holds a tool call with
\* malformed arguments ends by throwing without having invoked any tool of
\* that response.
C13_Original ==
    ( /\ QueryDone /\ RequestsTools
      /\ \E k \in DOMAIN RequestedCalls : ~IsValidJSON(RequestedCalls[k].arguments) ) =>
        /\ outcome.status = "threw"
        /\ invocations = <<>>

\* C14 as stated: after a cleanup() that returned, the registry holds no
\* connection and the tool list offered to the model is empty.
C14_Original ==
    (op = "cleanup" /\ pc = "idle" /\ outcome.status = "returned") =>
        /\ connections = <<>>
        /\ allTools = <<>>

\* The tool lists of the connections, concatenated in registration order.
RECURSIVE FlattenTools(_)
FlattenTools(conns) ==
    IF conns = <<>> THEN <<>>
    ELSE Head(conns).tools \o FlattenTools(Tail(conns))

\* C15 as stated: whenever no method runs, the tool list offered to the model
\* is the concatenation of the registered connections' tool lists, and every
\* tool in it has an owner.
C15_Original ==
    pc = "idle" =>
        /\ allTools = FlattenTools(connections)
        /\ \A i \in DOMAIN allTools : Owners(allTools[i]) # {}

\* C16 as stated: listTools of a server is in flight only once that server's
\* handshake has completed; and a connectToServer that fails rejects with an
\* error naming the server and registers nothing.
C16_Original ==
    [][ /\ pc' = "connecting" => handshake' = "done"
        /\ (pc = "connecting" /\ outcome'.status = "threw") =>
              /\ outcome'.error.message =
                    "Failed to read configuration file: Error: Failed to connect to server "
                    \o entries[idx] \o ": Error: Error connecting to server "
                    \o entries[idx] \o ": " \o outcome'.cause.name \o ": "
                    \o outcome'.cause.message
              /\ UNCHANGED <<connections, allTools>>
        /\ (pc = "connecting" /\ handshake = "failed") => outcome'.status = "threw"
      ]_vars

\* The position of a server name in a list of server names.
PositionIn(names, serverName) == CHOOSE i \in DOMAIN names : names[i] = serverName

\* C17 as stated: when connecting the k-th server of the configuration file
\* failed, connectToServers threw an error naming it, none of the servers
\* k+1..N of the file was attempted, and the servers 1..k-1 of the file are
\* registered and not closed.
C17_Original ==
    ( /\ op = "connectToServers" /\ pc = "idle"
      /\ outcome.status = "threw" /\ outcome.cause = TransportError ) =>
        LET k == PositionIn(configFile, entries[idx]) IN
        /\ outcome.error = ConnectError(configFile[k], TransportError)
        /\ \A j \in (k + 1)..Len(configFile) :
              configFile[j] \notin {entries[i] : i \in 1..idx}
        /\ \A j \in 1..(k - 1) :
              \E c \in DOMAIN connections : connections[c].serverName = configFile[j]
        /\ closed = <<>>

\* C18: the first submission of a query carries the tool schema, which is
\* the aggregated tool list, and tool_choice "auto" exactly when the
\* aggregated tool list is not empty; with no tool registered it carries
\* neither a tool schema nor a tool choice.
C18_ToolsOfferedIffRegistered ==
    (op = "processQuery" /\ Len(submissions) >= 1) =>
        LET first == submissions[1] IN
        /\ first.has_tools <=> allTools # <<>>
        /\ first.has_tools => first.tools = allTools /\ first.tool_choice = "auto"
        /\ ~first.has_tools => first.tools = <<>> /\ first.tool_choice = Null

\* C18 witness: a query answered with no tool registered; its only
\* submission had neither tools nor tool_choice.
C18_Witness ==
    /\ QueryDone
    /\ outcome.status = "returned"
    /\ allTools = <<>>
    /\ Len(submissions) = 1
    /\ ~submissions[1].has_tools
    /\ submissions[1].tool_choice = Null

\* C19: no step of processQuery, whether the query goes on, returns or
\* throws, changes the registered connections, their tool lists or the
\* aggregated tool list.
C19_QueryOnlyReadsRegistry ==
    [][op' = "processQuery" => UNCHANGED <<connections, allTools>>]_vars

\* C19 witness: queries have ended both ways with servers registered: this
\* one threw after a tool was looked up and invoked.
C19_Witness ==
    /\ QueryDone
    /\ outcome.status = "threw"
    /\ connections # <<>>
    /\ allTools # <<>>
    /\ Len(invocations) >= 1

\* The tool message the k-th tool call of the invocation with locals L
\* produces.
OwnToolMessage(L, k) ==
    [role |-> "tool",
     content |-> CallToolContent(L.invocations[k].serverName,
                                 L.firstResponse.message.tool_calls[k].name),
     has_tool_calls |-> FALSE, tool_calls |-> <<>>,
     tool_call_id |-> L.firstResponse.message.tool_calls[k].id]

\* The transcript of the invocation with locals L, made of what is its own:
\* its user message, the assistant message of its first response, and, once
\* its tool calls are done, their results.
OwnTranscript(L) ==
    <<[role |-> "user", content |-> L.query, has_tool_calls |-> FALSE,
       tool_calls |-> <<>>, tool_call_id |-> Null]>>
    \o (IF L.firstResponse.received /\ ~L.firstResponse.failed
           /\ L.firstResponse.has_choice
        THEN <<L.firstResponse.message>> ELSE <<>>)
    \o (IF Len(L.submissions) = 2
        THEN [k \in 1..Len(L.firstResponse.message.tool_calls) |-> OwnToolMessage(L, k)]
        ELSE <<>>)

\* What processQuery makes, run alone, of the replies the invocation with
\* locals L got, from its k-th tool call on.
RECURSIVE ResultFromCall(_, _)
ResultFromCall(L, k) ==
    LET calls == L.firstResponse.message.tool_calls IN
    IF k > Len(calls)
    THEN IF L.finalResponse.failed
         THEN [status |-> "threw", cause |-> BackendError]
         ELSE IF L.finalResponse.has_choice /\ L.finalResponse.finish_reason = "length"
         THEN [status |-> "returned",
               value |-> TruncationNotice(L.finalResponse.usage)]
         ELSE IF L.finalResponse.has_choice
                 /\ L.finalResponse.message.content \notin {Null, ""}
         THEN [status |-> "returned", value |-> L.finalResponse.message.content]
         ELSE [status |-> "returned", value |-> ""]
    ELSE IF ~IsValidJSON(calls[k].arguments)
    THEN [status |-> "threw", cause |-> JSONSyntaxError]
    ELSE IF Owners(calls[k].name) = {}
    THEN [status |-> "threw",
          cause |-> Error("Tool " \o calls[k].name \o " not found in any connected server")]
    ELSE IF L.invocations[k].status = "failed"
    THEN [status |-> "threw", cause |-> ToolError]
    ELSE ResultFromCall(L, k + 1)

\* What processQuery makes, run alone, of the replies the invocation with
\* locals L got.
ResultAlone(L) ==
    IF L.firstResponse.failed THEN [status |-> "threw", cause |-> BackendError]
    ELSE IF ~L.firstResponse.has_choice
    THEN [status |-> "threw", cause |-> Error("No response from GPT")]
    ELSE IF L.firstResponse.message.has_tool_calls
            /\ L.firstResponse.message.tool_calls # <<>>
    THEN ResultFromCall(L, 1)
    ELSE IF L.firstResponse.message.content \in {Null, ""}
    THEN [status |-> "returned", value |-> ""]
    ELSE [status |-> "returned", value |-> L.firstResponse.message.content]

\* The invocation with locals L has not been touched by another one.
Undisturbed(L) ==
    /\ L.messages = OwnTranscript(L)
    /\ L.toolResults = [k \in 1..Len(L.toolResults) |-> OwnToolMessage(L, k)]
    /\ \A i \in DOMAIN L.submissions :
          \A j \in DOMAIN L.submissions[i].messages :
             L.submissions[i].messages[j].role = "system"
             \/ L.submissions[i].messages[j] \in Range(OwnTranscript(L))
    /\ L.pc = "idle" =>
          /\ L.outcome.status = ResultAlone(L).status
          /\ L.outcome.status = "returned" => L.outcome.value = ResultAlone(L).value
          /\ L.outcome.status = "threw" =>
                /\ L.outcome.cause = ResultAlone(L).cause
                /\ L.outcome.error.message =
                      "Error processing query: " \o L.outcome.cause.name \o ": "
                      \o L.outcome.cause.message

\* C20: with two processQuery invocations in flight, whatever the order in
\* which their continuations run, the transcript of each holds its own user
\* message, the assistant message of its own first response and its own
\* tool results, and nothing else, and each ends as it would alone with the
\* replies it got.
C20_InterleavedQueriesDoNotInterfere ==
    op = "processQuery" =>
        /\ query # "" => Undisturbed(Locals)
        /\ other.query # "" => Undisturbed(other)

\* C20 witness: both invocations are in flight with different questions,
\* one awaiting a tool and the other, its tool result in hand, the final
\* response.
C20_Witness ==
    /\ op = "processQuery"
    /\ query # "" /\ other.query # "" /\ query # other.query
    /\ pc = "awaitFinal"
    /\ other.pc = "awaitTool"
    /\ Len(toolResults) = 1

====
